---- MODULE Spec2Model ----
(***************************************************************************)
(* The request relay of the EDMS assistant extension (background.ts): one  *)
(* chrome.runtime.onMessage listener, the async handlers it starts, and    *)
(* the process-wide registry activeRequests of AbortControllers.           *)
(*                                                                         *)
(* The relay is single-threaded.  One step of the model is one task of the *)
(* event loop together with the microtasks it queues: either one call of   *)
(* the listener (which runs every handler up to its first await), or the   *)
(* settling of one awaited promise (which runs the handler up to its next  *)
(* await or to its end, catch and finally blocks included).                *)
(*                                                                         *)
(* Strings are kept as in the source except that the Cyrillic literals are *)
(* transliterated.  An error message is a sequence of tokens, so that a    *)
(* template literal is a concatenation and "contains the status code" is a *)
(* membership test.                                                        *)
(*                                                                         *)
(* Spec is the relay.  SpecRequest follows one message from the listener   *)
(* to the HTTP request its handler builds.  SpecWidget is the chat widget  *)
(* (features/AssistantWidget.tsx) with the relay as its environment: every *)
(* answer the relay can give to a message arrives in a step of its own.    *)
(***************************************************************************)
EXTENDS Integers, Sequences, FiniteSets, TLC

\* Number of response-bearing messages the UI contexts deliver in one run.
MaxOps == 2

\* JavaScript's undefined: a missing field, a Map.get miss.
Undefined == "undefined"

\* background.ts:14 and :84, the key used when the caller supplies none.
DefaultRequestId == "default"

\* Identifiers a caller may put into payload.requestId.
RequestIds == {"r1"}

\* Keys the registry can hold.
Keys == RequestIds \cup {DefaultRequestId}

\* message.payload: absent, or an object whose requestId is a string or missing.
Payloads ==
    {[present |-> FALSE, requestId |-> Undefined]}
        \cup {[present |-> TRUE, requestId |-> r] : r \in RequestIds \cup {Undefined}}

\* The payload of an abortRequest may also carry a falsy requestId, the empty string.
AbortPayloads == Payloads \cup {[present |-> TRUE, requestId |-> ""]}

\* The message types the listener answers (background.ts:25-47).
JsonKinds == {"sendChatMessage", "summarizeDocument", "createNewChat", "autofillAppeal"}

PlainKinds == {"uploadFile", "getChatHistory"}

Kinds == JsonKinds \cup PlainKinds

\* Types without a case in the listener's switch: the one popup.tsx:221 sends for the
\* magic wand, and any type no UI context sends.
OtherTypes == {"sendShortSummary", "unknownType"}

\* HTTP statuses the backend answers with; response.ok is status in 200..299.
Statuses == {200, 500}

\* The backend's detail field: missing, or a human-readable string.
Details == {Undefined, "Bad token", "Request aborted"}

\* Parsed JSON bodies (valid) and a body that is not JSON (valid = FALSE).
\* The answer to an upload also names the stored file (AssistantWidget.tsx:169).
JsonBodies == {[valid |-> TRUE, detail |-> d, file_path |-> "/srv/a.pdf"] : d \in Details}

NotJson == [valid |-> FALSE, detail |-> Undefined, file_path |-> Undefined]

NoBody == [valid |-> FALSE, detail |-> "no body yet", file_path |-> Undefined]

VARIABLES
    activeRequests,   \* Map<string, AbortController>: key -> op that made the controller, 0 = no entry
    ops,              \* the handler invocations started so far, in order of arrival
    call,             \* the listener call made by the current step, NoCall in a continuation step
    abortSeen,        \* history: ops that were in flight when an abortRequest carrying their identifier was handled
    message,          \* SpecRequest: the message handed to the listener
    request,          \* SpecRequest: the HTTP request its handler issues for it
    isLoading,        \* AssistantWidget.tsx:56, useState(false)
    currentRequestIdRef,    \* AssistantWidget.tsx:63, useRef<string | null>(null)
    currentServerFilePath,  \* AssistantWidget.tsx:64, useRef<string | null>(null)
    attachedFile,     \* AssistantWidget.tsx:57, the file picked by the user or null
    messages,         \* AssistantWidget.tsx:54, the transcript
    sends,            \* the invocations of handleSendMessage so far
    outbox,           \* the messages handed to chrome.runtime.sendMessage so far
    event             \* the widget handler or callback run by the current step

\* The relay's state.
relayVars == <<activeRequests, ops, call, abortSeen>>

\* One handler followed from its message to the request it issues (SpecRequest).
requestVars == <<message, request>>

\* The widget's state (SpecWidget).
widgetVars == <<isLoading, currentRequestIdRef, currentServerFilePath, attachedFile,
                messages, sends, outbox, event>>

\* What a step of the relay leaves alone.
nonRelayVars == <<requestVars, widgetVars>>

vars == <<relayVars, requestVars, widgetVars>>

\* A call is [type, ret] and, for an abortRequest, the payload, the requestId line 14
\* computed from it and the responses the listener sent to the abort message itself.
NoCall == [type |-> "none", ret |-> FALSE]

NoKey == "-"

----------------------------------------------------------------------------
\* JavaScript helpers

\* x || y chooses y for undefined and for the empty string.
Truthy(x) == x # Undefined /\ x # ""

Ok(status) == status >= 200 /\ status <= 299

AbortError == [name |-> "AbortError", message |-> <<"The user aborted a request.">>]

\* fetch() rejects with a TypeError on a network failure.
NetworkError == [name |-> "TypeError", message |-> <<"Failed to fetch">>]

\* response.json() rejects with a SyntaxError on a body that is not JSON.
ParseError == [name |-> "SyntaxError", message |-> <<"Unexpected token < in JSON at position 0">>]

\* Reading a property of undefined throws a TypeError.
PayloadTypeError == [name |-> "TypeError", message |-> <<"Cannot read properties of undefined">>]

\* A success envelope that also carries an error member.
SuccessWithError(data) == [success |-> TRUE, data |-> data, error |-> Undefined]

\* lines 99, 129, 141: {success: true, data}
Success(data) == [success |-> TRUE, data |-> data]

Failure(error) == [success |-> FALSE, error |-> error]

----------------------------------------------------------------------------
\* background.ts

\* line 14: const requestId = message.payload?.requestId || 'default'
ListenerRequestId(payload) ==
    IF payload.present /\ Truthy(payload.requestId) THEN payload.requestId ELSE DefaultRequestId

\* lines 54-81: the object each JSON handler hands to performFetch.
\* handleChatMessage and handleDirectAction pass the payload on; handleCreateNewChat
\* builds {user_token} and handleAutofillAppeal {message, user_token, context_ui_id,
\* file_path}: neither copies requestId.
FetchPayload(kind, payload) ==
    IF kind \in {"sendChatMessage", "summarizeDocument"}
    THEN payload
    ELSE [present |-> TRUE, requestId |-> Undefined]

\* line 84: const requestId = payload.requestId || 'default'
performFetchRequestId(payload) ==
    IF Truthy(payload.requestId) THEN payload.requestId ELSE DefaultRequestId

\* lines 97, 128, 140: the Error thrown for a response that is not ok.
NotOkError(kind, status, body) ==
    [name |-> "Error",
     message |->
        IF Truthy(body.detail) THEN <<body.detail>>
        ELSE IF kind \in JsonKinds THEN <<"Oshibka servera: ", ToString(status)>>
        ELSE IF kind = "uploadFile" THEN <<"Oshibka sohraneniya fayla">>
        ELSE <<"Oshibka istorii">>]

\* lines 100-106, 130-132, 142-144: the catch blocks.
Caught(kind, err) ==
    IF kind \in JsonKinds /\ err.name = "AbortError"
    THEN Failure(<<"Request aborted">>)
    ELSE Failure(err.message)

\* A finally block that leaves the registry alone.
FinallyKeep(registry, op) == registry

\* Finally with activeRequests.clear() in place of delete(requestId).
FinallyClear(registry, op) ==
    IF op.kind \in JsonKinds /\ op.key # NoKey
    THEN [k \in Keys |-> 0]
    ELSE registry

\* lines 107-109: finally { activeRequests.delete(requestId) }; the other handlers have none.
Finally(registry, op) ==
    IF op.kind \in JsonKinds /\ op.key # NoKey
    THEN [registry EXCEPT ![op.key] = 0]
    ELSE registry

InFlight(op) == op.pc \in {"fetchData", "blob", "fetch", "json"}

\* lines 30, 55, 65, 71, 122, 138: the path each handler requests below API_BASE_URL
\* (the history path ends with the thread_id).
Endpoint(kind) ==
    CASE kind = "sendChatMessage" -> "/chat"
      [] kind = "summarizeDocument" -> "/actions/summarize"
      [] kind = "createNewChat" -> "/chat/new"
      [] kind = "autofillAppeal" -> "/appeal/autofill"
      [] kind = "uploadFile" -> "/upload-file"
      [] kind = "getChatHistory" -> "/chat/history/"

\* AssistantWidget.tsx:163: the uploadFile payload of a relay operation, a data URL, a
\* file name and a user token, with the requestId the operation was started with.
UploadPayload(payload) ==
    [fileData |-> "data:application/pdf;base64,AAAA", fileName |-> "a.pdf",
     user_token |-> "tok", requestId |-> payload.requestId]

\* fetch(fileData).blob(): the content behind a data URL.
Blob(fileData) == <<"blob of", fileData>>

\* FormData.append(name, value) turns a value that is not a Blob into a string.
FormString(value) == value

\* A form that also carries the file name as a field of its own.
FormDataWithName(payload) ==
    <<[name |-> "file", value |-> Blob(payload.fileData), filename |-> payload.fileName],
      [name |-> "fileName", value |-> FormString(payload.fileName)],
      [name |-> "user_token", value |-> FormString(payload.user_token)]>>

\* lines 114-120: the form handleFileUpload builds, in the order of its append calls.
FormData(payload) ==
    <<[name |-> "file", value |-> Blob(payload.fileData), filename |-> payload.fileName],
      [name |-> "user_token", value |-> FormString(payload.user_token)]>>

\* fetches counts the requests the handler has sent to the backend: the JSON handlers
\* and the history handler send theirs before their first await, the upload handler
\* only after the data payload has been read.
NewOp(kind, payload, pc, key, responses) ==
    [kind |-> kind, payload |-> payload, pc |-> pc, key |-> key, aborted |-> FALSE,
     status |-> 0, body |-> NoBody, responses |-> responses,
     endpoint |-> Endpoint(kind),
     fetches |-> IF pc = "fetch" THEN 1 ELSE 0,
     form |-> <<>>]

\* Respond with the sendResponse call of the catch blocks left out.
RespondUnlessFailure(op, envelope) ==
    [op EXCEPT !.pc = "done",
               !.responses = IF envelope.success THEN Append(@, envelope) ELSE @]

\* lines 99, 102, 105, 129, 131, 141, 143: sendResponse(envelope), after which the
\* handler runs to its end.
Respond(op, envelope) ==
    [op EXCEPT !.pc = "done", !.responses = Append(@, envelope)]

\* A throw whose catch answers and whose finally is skipped.
ThrowWithoutFinally(i, err) ==
    /\ ops' = [ops EXCEPT ![i] = Respond(@, Caught(ops[i].kind, err))]
    /\ activeRequests' = activeRequests

\* The handler of op leaves its try block with err: catch, then finally.
Throw(i, err) ==
    /\ ops' = [ops EXCEPT ![i] = Respond(@, Caught(ops[i].kind, err))]
    /\ activeRequests' = Finally(activeRequests, ops[i])

\* Get that falls back to the 'default' entry on a miss.
GetOrDefault(registry, requestId) ==
    IF registry[requestId] # 0 THEN registry[requestId] ELSE registry[DefaultRequestId]

\* line 18: activeRequests.get(requestId), 0 for undefined.
Get(registry, requestId) == registry[requestId]

\* Set that keeps the entry the key already has.
RegisterIfAbsent(registry, requestId, controller) ==
    IF registry[requestId] # 0 THEN registry
    ELSE [registry EXCEPT ![requestId] = controller]

\* line 86: activeRequests.set(requestId, controller)
Register(registry, requestId, controller) ==
    [registry EXCEPT ![requestId] = controller]

\* lines 25-31, 41-47, 54-94: a JSON handler up to its first await.  A missing payload
\* throws at line 84 (66, 74), outside every try: the handler's promise rejects, nothing
\* is registered and sendResponse is never called.
StartJson(kind, payload) ==
    /\ Len(ops) < MaxOps
    /\ call' = [type |-> kind, ret |-> TRUE]
    /\ UNCHANGED nonRelayVars
    /\ IF ~payload.present
       THEN /\ ops' = Append(ops, NewOp(kind, payload, "rejected", NoKey, <<>>))
            /\ UNCHANGED activeRequests
       ELSE LET requestId == performFetchRequestId(FetchPayload(kind, payload)) IN
            /\ ops' = Append(ops, NewOp(kind, payload, "fetch", requestId, <<>>))
            /\ activeRequests' = Register(activeRequests, requestId, Len(ops) + 1)
    /\ UNCHANGED abortSeen

\* lines 33-39, 112-115, 135-138: upload and history destructure the payload inside
\* the try block, so a missing payload is caught and answered at once.
StartPlain(kind, payload) ==
    /\ Len(ops) < MaxOps
    /\ call' = [type |-> kind, ret |-> TRUE]
    /\ UNCHANGED nonRelayVars
    /\ IF ~payload.present
       THEN ops' = Append(ops, NewOp(kind, payload, "done", NoKey,
                                     <<Caught(kind, PayloadTypeError)>>))
       ELSE ops' = Append(ops, NewOp(kind, payload,
                                     IF kind = "uploadFile" THEN "fetchData" ELSE "fetch",
                                     NoKey, <<>>))
    /\ UNCHANGED <<activeRequests, abortSeen>>

sendChatMessage(payload) == StartJson("sendChatMessage", payload)

summarizeDocument(payload) == StartJson("summarizeDocument", payload)

createNewChat(payload) == StartJson("createNewChat", payload)

autofillAppeal(payload) == StartJson("autofillAppeal", payload)

uploadFile(payload) == StartPlain("uploadFile", payload)

getChatHistory(payload) == StartPlain("getChatHistory", payload)

\* An abort case that answers the abort message and keeps its channel open.
AbortCallAnswered(payload, requestId) ==
    [type |-> "abortRequest", payload |-> payload, requestId |-> requestId,
     responses |-> <<Success(Undefined)>>, ret |-> TRUE]

\* lines 17-23: the abort case never calls the sendResponse it was handed and returns
\* false.
AbortCall(payload, requestId) ==
    [type |-> "abortRequest", payload |-> payload, requestId |-> requestId,
     responses |-> <<>>, ret |-> FALSE]

\* lines 17-23.  controller.abort() rejects the promise the handler awaits (fetch or
\* response.json()) with an AbortError; its catch and finally run as microtasks of the
\* same task, before any other message is handled.
abortRequest(payload) ==
    LET requestId == ListenerRequestId(payload)
        controller == Get(activeRequests, requestId)
    IN  /\ call' = AbortCall(payload, requestId)
        /\ UNCHANGED nonRelayVars
        /\ abortSeen' = abortSeen \cup
              {i \in 1..Len(ops) : InFlight(ops[i]) /\ ListenerRequestId(ops[i].payload) = requestId}
        /\ IF controller # 0
           THEN /\ ops' = [ops EXCEPT ![controller] =
                              Respond([@ EXCEPT !.aborted = TRUE],
                                      Caught(ops[controller].kind, AbortError))]
                /\ activeRequests' =
                      Finally([activeRequests EXCEPT ![requestId] = 0], ops[controller])
           ELSE UNCHANGED <<activeRequests, ops>>

\* lines 49-50: any other type.
otherMessage(type) ==
    /\ call' = [type |-> type, ret |-> FALSE]
    /\ UNCHANGED nonRelayVars
    /\ UNCHANGED <<activeRequests, ops, abortSeen>>

----------------------------------------------------------------------------
\* The awaited promises settle

\* line 115: fetch(fileData) resolves.
FileDataFetched(i) ==
    /\ ops[i].pc = "fetchData"
    /\ ops' = [ops EXCEPT ![i].pc = "blob"]
    /\ call' = NoCall
    /\ UNCHANGED nonRelayVars
    /\ UNCHANGED <<activeRequests, abortSeen>>

\* line 115: fetch(fileData) rejects.
FileDataFailed(i) ==
    /\ ops[i].pc = "fetchData"
    /\ Throw(i, NetworkError)
    /\ call' = NoCall
    /\ UNCHANGED nonRelayVars
    /\ UNCHANGED abortSeen

\* lines 116-125: blobRes.blob() resolves, the form is built and the POST is issued.
BlobRead(i) ==
    /\ ops[i].pc = "blob"
    /\ ops' = [ops EXCEPT ![i].pc = "fetch", ![i].fetches = @ + 1,
                           ![i].form = FormData(UploadPayload(ops[i].payload))]
    /\ call' = NoCall
    /\ UNCHANGED nonRelayVars
    /\ UNCHANGED <<activeRequests, abortSeen>>

\* line 116: blobRes.blob() rejects.
BlobFailed(i) ==
    /\ ops[i].pc = "blob"
    /\ Throw(i, NetworkError)
    /\ call' = NoCall
    /\ UNCHANGED nonRelayVars
    /\ UNCHANGED abortSeen

\* lines 89-94, 122-125, 138: the request's fetch resolves with the response headers.
FetchResolved(i, status) ==
    /\ ops[i].pc = "fetch"
    /\ ops' = [ops EXCEPT ![i].pc = "json", ![i].status = status]
    /\ call' = NoCall
    /\ UNCHANGED nonRelayVars
    /\ UNCHANGED <<activeRequests, abortSeen>>

\* The request's fetch rejects: network failure.
FetchRejected(i) ==
    /\ ops[i].pc = "fetch"
    /\ Throw(i, NetworkError)
    /\ call' = NoCall
    /\ UNCHANGED nonRelayVars
    /\ UNCHANGED abortSeen

\* lines 96-99, 127-129, 139-141: response.json() resolves with the parsed body.
JsonResolved(i, body) ==
    /\ ops[i].pc = "json"
    /\ IF Ok(ops[i].status)
       THEN /\ ops' = [ops EXCEPT ![i] = Respond([@ EXCEPT !.body = body], Success(body))]
            /\ activeRequests' = Finally(activeRequests, ops[i])
       ELSE /\ ops' = [ops EXCEPT ![i] =
                          Respond([@ EXCEPT !.body = body],
                                  Caught(ops[i].kind,
                                         NotOkError(ops[i].kind, ops[i].status, body)))]
            /\ activeRequests' = Finally(activeRequests, ops[i])
    /\ call' = NoCall
    /\ UNCHANGED nonRelayVars
    /\ UNCHANGED abortSeen

\* response.json() rejects: the body is not JSON.
JsonRejected(i) ==
    /\ ops[i].pc = "json"
    /\ ops' = [ops EXCEPT ![i] =
                  Respond([@ EXCEPT !.body = NotJson], Caught(ops[i].kind, ParseError))]
    /\ activeRequests' = Finally(activeRequests, ops[i])
    /\ call' = NoCall
    /\ UNCHANGED nonRelayVars
    /\ UNCHANGED abortSeen

----------------------------------------------------------------------------
\* The HTTP request each handler issues (background.ts:54-94, 112-125, 135-138)

\* JavaScript's null.
Null == "null"

\* line 74: the message handleAutofillAppeal sends when the payload has none
\* ("Zapolni obrashchenie" transliterates the Cyrillic literal).
DefaultAutofillMessage == "Zapolni obrashchenie"

\* Payload objects of the JSON messages as the UI contexts build them
\* (AssistantWidget.tsx:175-182, contents/index.tsx:176-183): every field is a string
\* or missing.
JsonPayloadObjects ==
    [message : {Undefined, "", "hello"},
     user_token : {Undefined, "tok"},
     context_ui_id : {Undefined, "doc1"},
     file_path : {Undefined, "/srv/a.pdf"},
     requestId : {Undefined, "r1"},
     human_choice : {Undefined, "yes"}]

\* Payload objects of uploadFile (AssistantWidget.tsx:163), with or without a stray
\* requestId.
UploadPayloadObjects ==
    [fileData : {"data:application/pdf;base64,AAAA"},
     fileName : {Undefined, "a.pdf"},
     user_token : {Undefined, "tok"},
     requestId : {Undefined, "r1"}]

\* Payload objects of getChatHistory.
HistoryPayloadObjects == [thread_id : {Undefined, "t1"}]

\* message.payload of a message that has no payload object.
NoPayload == [undefined |-> TRUE]

\* The messages a UI context can hand to the listener.
Messages ==
    {[type |-> t, payload |-> o] : t \in JsonKinds, o \in JsonPayloadObjects \cup {NoPayload}}
        \cup {[type |-> "uploadFile", payload |-> o] : o \in UploadPayloadObjects \cup {NoPayload}}
        \cup {[type |-> "getChatHistory", payload |-> o] :
                 o \in HistoryPayloadObjects \cup {NoPayload}}

NoMessage == [type |-> "none", payload |-> NoPayload]

NoRequest == [method |-> "none"]

\* JSON.stringify(object): the members of the object in a JSON text, as a set of
\* <<name, value>> pairs.  A member whose value is undefined is left out, null is kept.
Stringify(object) ==
    {<<f, object[f]>> : f \in {g \in DOMAIN object : object[g] # Undefined}}

\* x || y
OrElse(x, y) == IF Truthy(x) THEN x ELSE y

\* Every JSON handler handing its payload on unchanged.
VerbatimPayload(type, payload) == payload

\* lines 56, 61, 66-67, 73-80: the object each JSON handler passes to performFetch.
HandlerPayload(type, payload) ==
    CASE type \in {"sendChatMessage", "summarizeDocument"} -> payload
      [] type = "createNewChat" -> [user_token |-> payload.user_token]
      [] type = "autofillAppeal" ->
            [message |-> OrElse(payload.message, DefaultAutofillMessage),
             user_token |-> payload.user_token,
             context_ui_id |-> payload.context_ui_id,
             file_path |-> OrElse(payload.file_path, Null)]

\* line 84 on the object of HandlerPayload: a missing member reads as undefined.
HandlerRequestId(object) ==
    IF "requestId" \in DOMAIN object /\ Truthy(object.requestId)
    THEN object.requestId ELSE DefaultRequestId

\* lines 89-94: the fetch of performFetch.
JsonRequest(type, payload) ==
    [method |-> "POST", endpoint |-> Endpoint(type),
     contentType |-> "application/json",
     body |-> Stringify(HandlerPayload(type, payload)),
     signal |-> HandlerRequestId(HandlerPayload(type, payload))]

\* lines 122-125: the upload request; no signal is passed.
UploadRequest(payload) ==
    [method |-> "POST", endpoint |-> Endpoint("uploadFile"),
     contentType |-> "multipart/form-data",
     body |-> FormData(payload),
     signal |-> Undefined]

\* line 138: the history request, a GET without body or signal.
HistoryRequest(payload) ==
    [method |-> "GET", endpoint |-> <<Endpoint("getChatHistory"), payload.thread_id>>,
     contentType |-> Undefined, body |-> Undefined, signal |-> Undefined]

HandlerRequest(m) ==
    CASE m.type \in JsonKinds -> JsonRequest(m.type, m.payload)
      [] m.type = "uploadFile" -> UploadRequest(m.payload)
      [] m.type = "getChatHistory" -> HistoryRequest(m.payload)

\* A UI context hands message m to the listener (line 13).
Deliver(m) ==
    /\ message' = m
    /\ request' = NoRequest
    /\ UNCHANGED <<relayVars, widgetVars>>

\* The handler of the message reaches its request to the backend.  Without a payload
\* object it throws before that (lines 66, 74, 84, 114, 137) and issues nothing.
IssueRequest ==
    /\ message.type \in Kinds
    /\ message.payload # NoPayload
    /\ request = NoRequest
    /\ request' = HandlerRequest(message)
    /\ UNCHANGED <<message, relayVars, widgetVars>>

----------------------------------------------------------------------------
\* features/AssistantWidget.tsx

\* Number of messages the user sends in one run.
MaxSends == 2

\* inputValue when the form is submitted.
Texts == {"", "hello"}

\* The file the user picked (line 424), by its name.
Files == {"a.pdf"}

\* The second argument of handleSendMessage: undefined for the form, the method for an
\* action button (lines 240-250).
HumanChoices == {Undefined, "thesis"}

\* line 141: Math.random().toString(36).substring(7), one string per invocation.
RandomRequestId(n) == "w" \o ToString(n)

\* The backend's detail texts as the widget may meet them: missing, or a sentence of
\* the backend's own wording.
BackendDetails == {Undefined, "Bad token", "Job aborted by operator"}

BackendErrorBodies ==
    {[valid |-> TRUE, detail |-> d, file_path |-> Undefined] : d \in BackendDetails}

\* The callback's argument when the relay never calls sendResponse and the message
\* port closes.
NoResponse == [undefined |-> TRUE]

\* What the relay answers an uploadFile with (background.ts:112-133).
UploadResponses ==
    {Success(b) : b \in {c \in JsonBodies : c.detail = Undefined}}
        \cup {Caught("uploadFile", err) : err \in {NetworkError, ParseError}}
        \cup {Caught("uploadFile", NotOkError("uploadFile", 500, b)) : b \in BackendErrorBodies}
        \cup {NoResponse}

\* The JSON the backend answers a chat with: a reply, or a request to choose a method.
ChatData ==
    {[status |-> "requires_action", message |-> "choose", action_type |-> "summarize_selection"],
     [status |-> Undefined, message |-> "hi", action_type |-> Undefined]}

\* What the relay answers a sendChatMessage with (background.ts:83-110).
ChatResponses ==
    {Success(d) : d \in ChatData}
        \cup {Caught("sendChatMessage", err) : err \in {AbortError, NetworkError, ParseError}}
        \cup {Caught("sendChatMessage", NotOkError("sendChatMessage", 500, b)) :
                 b \in BackendErrorBodies}
        \cup {NoResponse}

\* res?.success
ResSuccess(res) == res # NoResponse /\ res.success

\* res?.error || fallback
ResError(res, fallback) ==
    IF res # NoResponse /\ Truthy(res.error) /\ res.error # <<>> THEN res.error ELSE <<fallback>>

\* The words of the string literals of the model.
Words(token) ==
    CASE token = "Request aborted" -> <<"Request", "aborted">>
      [] token = "The user aborted a request." -> <<"The", "user", "aborted", "a", "request.">>
      [] token = "Job aborted by operator" -> <<"Job", "aborted", "by", "operator">>
      [] token = "Bad token" -> <<"Bad", "token">>
      [] token = "Failed to fetch" -> <<"Failed", "to", "fetch">>
      [] token = "Unknown error" -> <<"Unknown", "error">>
      [] OTHER -> <<token>>

\* String(err).includes(word): some token of the message has the word in it.
Includes(err, word) ==
    \E n \in 1..Len(err) : \E w \in 1..Len(Words(err[n])) : Words(err[n])[w] = word

\* line 225: String(err).includes('aborted')
IsAborted(err, word) == Includes(err, word)

NoEvent == [type |-> "none"]

\* lines 144-152: the user's entry in the transcript.
UserMessage(text, file, humanChoice, n) ==
    [role |-> "user",
     content |-> IF humanChoice # Undefined THEN <<"Vybran metod: ", humanChoice>>
                 ELSE IF file # Null THEN <<text, " (Fayl: ", file, ")">>
                 ELSE <<text>>,
     action_type |-> Undefined, send |-> n]

\* lines 189-221: the assistant's entry for a chat answer.
AssistantMessage(chatRes, n) ==
    [role |-> "assistant", content |-> <<chatRes.message>>,
     action_type |-> chatRes.action_type, send |-> n]

\* line 226: the error entry.
ErrorMessage(err, n) ==
    [role |-> "assistant", content |-> <<"Oshibka: ">> \o err,
     action_type |-> Undefined, send |-> n]

\* line 268: the notice of handleAbortRequest.
CancelledNotice(n) ==
    [role |-> "assistant", content |-> <<"_Zapros otmenen polzovatelem._">>,
     action_type |-> Undefined, send |-> n]

\* line 163: the uploadFile message; userToken is read at line 139.
UploadMessage(file) ==
    [type |-> "uploadFile",
     payload |-> [fileData |-> <<"data of", file>>, fileName |-> file, user_token |-> "tok"]]

\* lines 173-182: the sendChatMessage message.
ChatMessage(send, file_path) ==
    [type |-> "sendChatMessage",
     payload |-> [message |-> send.text, user_token |-> "tok", requestId |-> send.requestId,
                  context_ui_id |-> "doc1", file_path |-> file_path,
                  human_choice |-> send.humanChoice]]

\* An abort message that names no request.
AbortMessageWithoutId(requestId) ==
    [type |-> "abortRequest", payload |-> [requestId |-> Undefined]]

\* line 265: the abortRequest message.
AbortMessage(requestId) ==
    [type |-> "abortRequest", payload |-> [requestId |-> requestId]]

\* The invocation of handleSendMessage that drew requestId, 0 if there is none.
SendOf(requestId) ==
    IF \E n \in 1..Len(sends) : sends[n].requestId = requestId
    THEN CHOOSE n \in 1..Len(sends) : sends[n].requestId = requestId
    ELSE 0

\* line 424: the file reader hands over the picked file.
attachFile(file) ==
    /\ attachedFile = Null
    /\ attachedFile' = file
    /\ event' = [type |-> "attachFile"]
    /\ UNCHANGED <<isLoading, currentRequestIdRef, currentServerFilePath, messages, sends,
                   outbox>>
    /\ UNCHANGED <<relayVars, requestVars>>

\* line 379: the user removes the attachment.
removeFile ==
    /\ attachedFile # Null
    /\ attachedFile' = Null
    /\ event' = [type |-> "removeFile"]
    /\ UNCHANGED <<isLoading, currentRequestIdRef, currentServerFilePath, messages, sends,
                   outbox>>
    /\ UNCHANGED <<relayVars, requestVars>>

\* lines 130-187: handleSendMessage up to its first await.  With an attachment and no
\* humanChoice it sends uploadFile, otherwise sendChatMessage.
handleSendMessage(text, humanChoice) ==
    /\ Len(sends) < MaxSends
    /\ ~((text = "" /\ attachedFile = Null /\ humanChoice = Undefined) \/ isLoading)
    /\ LET n == Len(sends) + 1
           upload == attachedFile # Null /\ humanChoice = Undefined
           send == [requestId |-> RandomRequestId(n), text |-> text, file |-> attachedFile,
                    humanChoice |-> humanChoice,
                    pc |-> IF upload THEN "upload" ELSE "chat",
                    cancelled |-> FALSE]
       IN  /\ currentRequestIdRef' = send.requestId
           /\ messages' = Append(messages, UserMessage(text, attachedFile, humanChoice, n))
           /\ isLoading' = TRUE
           /\ sends' = Append(sends, send)
           /\ outbox' = Append(outbox, IF upload THEN UploadMessage(attachedFile)
                                       ELSE ChatMessage(send, currentServerFilePath))
           /\ event' = [type |-> "handleSendMessage", send |-> n]
    /\ UNCHANGED <<currentServerFilePath, attachedFile>>
    /\ UNCHANGED <<relayVars, requestVars>>

\* lines 224-234: catch and finally of invocation n.
CatchFinally(n, err) ==
    /\ messages' = IF IsAborted(err, "aborted") THEN messages
                   ELSE Append(messages, ErrorMessage(err, n))
    /\ isLoading' = FALSE
    /\ currentRequestIdRef' = Null
    /\ attachedFile' = Null
    /\ sends' = [sends EXCEPT ![n].pc = "done"]

\* lines 164-187: the callback of the uploadFile message runs.  On success the path is
\* stored and the chat message is sent; otherwise the promise rejects.
uploadCallback(n, res) ==
    /\ sends[n].pc = "upload"
    /\ event' = [type |-> "uploadCallback", send |-> n, res |-> res]
    /\ IF ResSuccess(res)
       THEN /\ currentServerFilePath' = res.data.file_path
            /\ sends' = [sends EXCEPT ![n].pc = "chat"]
            /\ outbox' = Append(outbox, ChatMessage(sends[n], res.data.file_path))
            /\ UNCHANGED <<isLoading, currentRequestIdRef, attachedFile, messages>>
       ELSE /\ CatchFinally(n, ResError(res, "Oshibka zagruzki"))
            /\ UNCHANGED <<currentServerFilePath, outbox>>
    /\ UNCHANGED <<relayVars, requestVars>>

\* lines 183-234: the callback of the sendChatMessage message runs.
chatCallback(n, res) ==
    /\ sends[n].pc = "chat"
    /\ event' = [type |-> "chatCallback", send |-> n, res |-> res]
    /\ IF ResSuccess(res)
       THEN /\ messages' = Append(messages, AssistantMessage(res.data, n))
            /\ currentServerFilePath' =
                  IF res.data.status = "requires_action" THEN currentServerFilePath ELSE Null
            /\ isLoading' = FALSE
            /\ currentRequestIdRef' = Null
            /\ attachedFile' = Null
            /\ sends' = [sends EXCEPT ![n].pc = "done"]
       ELSE /\ CatchFinally(n, ResError(res, "Unknown error"))
            /\ UNCHANGED currentServerFilePath
    /\ UNCHANGED outbox
    /\ UNCHANGED <<relayVars, requestVars>>

\* lines 263-270: the cancel button's handler.
handleAbortRequest ==
    /\ event' = [type |-> "handleAbortRequest", ref |-> currentRequestIdRef]
    /\ IF currentRequestIdRef # Null /\ Truthy(currentRequestIdRef)
       THEN /\ outbox' = Append(outbox, AbortMessage(currentRequestIdRef))
            /\ isLoading' = FALSE
            /\ currentRequestIdRef' = Null
            /\ messages' = Append(messages, CancelledNotice(SendOf(currentRequestIdRef)))
            /\ sends' = [n \in 1..Len(sends) |->
                            IF sends[n].requestId = currentRequestIdRef
                            THEN [sends[n] EXCEPT !.cancelled = TRUE] ELSE sends[n]]
       ELSE UNCHANGED <<outbox, isLoading, currentRequestIdRef, messages, sends>>
    /\ UNCHANGED <<currentServerFilePath, attachedFile>>
    /\ UNCHANGED <<relayVars, requestVars>>

----------------------------------------------------------------------------

Init ==
    /\ activeRequests = [k \in Keys |-> 0]
    /\ ops = <<>>
    /\ call = NoCall
    /\ abortSeen = {}
    /\ message = NoMessage
    /\ request = NoRequest
    /\ isLoading = FALSE
    /\ currentRequestIdRef = Null
    /\ currentServerFilePath = Null
    /\ attachedFile = Null
    /\ messages = <<>>
    /\ sends = <<>>
    /\ outbox = <<>>
    /\ event = NoEvent

Next ==
    \/ \E payload \in Payloads : sendChatMessage(payload)
    \/ \E payload \in Payloads : summarizeDocument(payload)
    \/ \E payload \in Payloads : createNewChat(payload)
    \/ \E payload \in Payloads : autofillAppeal(payload)
    \/ \E payload \in Payloads : uploadFile(payload)
    \/ \E payload \in Payloads : getChatHistory(payload)
    \/ \E payload \in AbortPayloads : abortRequest(payload)
    \/ \E type \in OtherTypes : otherMessage(type)
    \/ \E i \in 1..Len(ops) : FileDataFetched(i)
    \/ \E i \in 1..Len(ops) : FileDataFailed(i)
    \/ \E i \in 1..Len(ops) : BlobRead(i)
    \/ \E i \in 1..Len(ops) : BlobFailed(i)
    \/ \E i \in 1..Len(ops), status \in Statuses : FetchResolved(i, status)
    \/ \E i \in 1..Len(ops) : FetchRejected(i)
    \/ \E i \in 1..Len(ops), body \in JsonBodies : JsonResolved(i, body)
    \/ \E i \in 1..Len(ops) : JsonRejected(i)

Spec == Init /\ [][Next]_vars

\* The promise that operation i awaits settles, one way or the other.
Settle(i) ==
    /\ i \in 1..Len(ops)
    /\ \/ FileDataFetched(i)
       \/ FileDataFailed(i)
       \/ BlobRead(i)
       \/ BlobFailed(i)
       \/ \E status \in Statuses : FetchResolved(i, status)
       \/ FetchRejected(i)
       \/ \E body \in JsonBodies : JsonResolved(i, body)
       \/ JsonRejected(i)

\* The relay under the assumption that every network call that was issued settles.
SpecFair == Spec /\ \A i \in 1..MaxOps : WF_vars(Settle(i))

\* One message followed from the listener to the request its handler issues.
NextRequest ==
    \/ \E m \in Messages : Deliver(m)
    \/ IssueRequest

SpecRequest == Init /\ [][NextRequest]_vars

\* The widget, with the relay as its environment.
NextWidget ==
    \/ \E file \in Files : attachFile(file)
    \/ removeFile
    \/ \E text \in Texts, humanChoice \in HumanChoices : handleSendMessage(text, humanChoice)
    \/ \E n \in 1..Len(sends), res \in UploadResponses : uploadCallback(n, res)
    \/ \E n \in 1..Len(sends), res \in ChatResponses : chatCallback(n, res)
    \/ handleAbortRequest

SpecWidget == Init /\ [][NextWidget]_vars

----------------------------------------------------------------------------
\* Properties of the relay

\* The identifier of an operation: what line 14 computes from the message that
\* started it, and so what an abortRequest with the same payload.requestId targets.
Id(op) == ListenerRequestId(op.payload)

AbortedEnvelope == Failure(<<"Request aborted">>)

OpIds == 1..Len(ops)

Range(seq) == {seq[n] : n \in 1..Len(seq)}

\* C1: an operation that was in flight when an abortRequest carrying its identifier
\* was handled gets the failure envelope {success:false, error:'Request aborted'} and
\* never a success envelope, and the identifier is absent from the registry once the
\* abort has been handled.
C1_AbortYieldsCancelled ==
    /\ call.type = "abortRequest" => activeRequests[call.requestId] = 0
    /\ \A i \in abortSeen :
          /\ Range(ops[i].responses) \subseteq {AbortedEnvelope}
          /\ ops[i].pc = "done" => ops[i].responses = <<AbortedEnvelope>>

\* C2: when an operation completes without being aborted, on the success path and on
\* every failure path, the registry holds no entry under its identifier at the moment
\* its handling finishes.
C2_CompletedLeavesNoEntry ==
    [][\A i \in OpIds :
          (InFlight(ops[i]) /\ ops'[i].pc = "done" /\ ~ops'[i].aborted)
              => activeRequests'[Id(ops[i])] = 0]_vars

\* C3: sendResponse is invoked exactly once for every message whose network call
\* settled or was aborted: never twice, and never before the call has settled.
C3_ExactlyOnce ==
    \A i \in OpIds :
        /\ Len(ops[i].responses) <= 1
        /\ ops[i].pc = "done" => Len(ops[i].responses) = 1
        /\ InFlight(ops[i]) => Len(ops[i].responses) = 0

\* One operation was aborted, another one settled on its own, each answered once.
C3_Witness ==
    \E i, j \in OpIds :
        /\ ops[i].pc = "done" /\ ops[i].aborted /\ Len(ops[i].responses) = 1
        /\ ops[j].pc = "done" /\ ~ops[j].aborted /\ ops[j].status # 0
        /\ Len(ops[j].responses) = 1

\* C4: a message of a response-bearing type that carries no payload object is answered
\* with a success=false envelope and leaves the registry unchanged.
C4_MalformedAnswered ==
    \A i \in OpIds :
        ~ops[i].payload.present
            => /\ Len(ops[i].responses) = 1
               /\ ~ops[i].responses[1].success
               /\ ops[i].key = NoKey

\* C5: for every operation kind, a non-2xx answer gives {success:false, error:m} with
\* m the detail field of the body when present and otherwise a message containing the
\* status code, also when the body is not valid JSON.
C5_NotOkMessage ==
    \A i \in OpIds :
        (ops[i].pc = "done" /\ ~ops[i].aborted /\ ops[i].status # 0 /\ ~Ok(ops[i].status))
            => /\ Len(ops[i].responses) = 1
               /\ ~ops[i].responses[1].success
               /\ IF ops[i].body.valid /\ ops[i].body.detail # Undefined
                  THEN ops[i].responses[1].error = <<ops[i].body.detail>>
                  ELSE ToString(ops[i].status) \in Range(ops[i].responses[1].error)

\* C6: every failure has the shape {success:false, error:string}, and a response
\* carries the error 'Request aborted' if and only if the operation's controller was
\* signalled by an abortRequest while the operation was in flight.
C6_OnlyCancellationTagged ==
    \A i \in OpIds : \A n \in 1..Len(ops[i].responses) :
        LET r == ops[i].responses[n] IN
        ~r.success
            => /\ DOMAIN r = {"success", "error"}
               /\ (r.error = <<"Request aborted">>) <=> ops[i].aborted

\* C7: an abortRequest whose identifier is not in the registry changes nothing: the
\* registry and every operation (its controller, its position, its responses) stay as
\* they are, and the listener returns false.
C7_AbortMissIsNoop ==
    [][(call'.type = "abortRequest" /\ activeRequests[call'.requestId] = 0)
          => (activeRequests' = activeRequests /\ ops' = ops /\ ~call'.ret)]_vars

\* An abort for the identifier of an operation that already completed was handled
\* while another operation was in flight, and nothing was cancelled.
C7_Witness ==
    /\ call.type = "abortRequest"
    /\ \A i \in OpIds : ~ops[i].aborted
    /\ \E i, j \in OpIds :
          /\ ops[i].pc = "done" /\ ops[i].key = call.requestId
          /\ InFlight(ops[j]) /\ \E k \in Keys : activeRequests[k] = j

\* C8: an operation that fails never removes or replaces another in-flight
\* operation's registry entry and never changes another operation, also when the two
\* use the same identifier.
C8_FailureIsolated ==
    [][\A i \in OpIds :
          (InFlight(ops[i]) /\ ops'[i].pc = "done" /\ ~ops'[i].responses[1].success)
              => \A j \in OpIds \ {i} :
                    InFlight(ops[j])
                        => /\ ops'[j] = ops[j]
                           /\ \A k \in Keys :
                                 activeRequests[k] = j => activeRequests'[k] = j]_vars

\* Every registry entry holds the controller of an operation that is in flight under
\* that key and has not been signalled; an operation that was not aborted is answered
\* with its own backend result.
RegistryLive ==
    /\ \A k \in Keys :
          activeRequests[k] # 0
              => LET op == ops[activeRequests[k]] IN
                 InFlight(op) /\ ~op.aborted /\ op.key = k
    /\ \A i \in OpIds :
          (ops[i].pc = "done" /\ ~ops[i].aborted /\ Ok(ops[i].status) /\ ops[i].body.valid)
              => ops[i].responses = <<Success(ops[i].body)>>

\* C9: with X and Y (X # Y) both registered, an abortRequest for X signals only X's
\* controller and removes only X's entry; Y's entry and operation are unchanged, Y
\* stays cancellable and completes with its own backend result.
C9_IndependentCancel ==
    /\ [][\A x, y \in Keys :
             (/\ x # y
              /\ call'.type = "abortRequest" /\ call'.requestId = x
              /\ activeRequests[x] # 0 /\ activeRequests[y] # 0)
                 => LET a == activeRequests[x]
                        b == activeRequests[y]
                    IN  /\ activeRequests'[x] = 0
                        /\ activeRequests'[y] = b
                        /\ ops'[a].aborted /\ ops'[a].responses = <<AbortedEnvelope>>
                        /\ \A j \in OpIds \ {a} : ops'[j] = ops[j]]_vars
    /\ []RegistryLive

\* X was aborted while Y is still in flight and registered.
C9_Witness ==
    /\ call.type = "abortRequest"
    /\ \E a, b \in OpIds :
          /\ ops[a].aborted /\ ops[a].key = call.requestId
          /\ ops[a].responses = <<AbortedEnvelope>>
          /\ InFlight(ops[b]) /\ ops[b].key # ops[a].key
          /\ \E k \in Keys : activeRequests[k] = b

\* C10: an operation of any kind that is in flight has an entry in the registry under
\* its identifier.
C10_InFlightRegistered ==
    \A i \in OpIds : InFlight(ops[i]) => activeRequests[Id(ops[i])] # 0

\* C12: when the backend answered an operation with a 2xx status and a JSON body d,
\* the caller received exactly one response, {success:true, data:d} with d unchanged
\* and no error member; a sendChatMessage went as one request to /chat.
C12_SuccessEnvelope ==
    \A i \in OpIds :
        (ops[i].pc = "done" /\ Ok(ops[i].status) /\ ops[i].body.valid)
            => /\ Len(ops[i].responses) = 1
               /\ DOMAIN ops[i].responses[1] = {"success", "data"}
               /\ ops[i].responses[1].success
               /\ ops[i].responses[1].data = ops[i].body
               /\ ops[i].fetches = 1
               /\ ops[i].kind = "sendChatMessage" => ops[i].endpoint = "/chat"

\* A sendChatMessage with requestId 'r1' was answered 200 with a JSON body.
C12_Witness ==
    \E i \in OpIds :
        /\ ops[i].kind = "sendChatMessage" /\ ops[i].payload.requestId = "r1"
        /\ ops[i].pc = "done" /\ Ok(ops[i].status) /\ ops[i].body.valid
        /\ ops[i].responses = <<[success |-> TRUE, data |-> ops[i].body]>>

\* C13: an uploadFile with a data payload, a file name and a user token sends at most
\* one request, and none before the data payload has been read; the request is a POST
\* to /upload-file whose form holds exactly the blob, named with the file name, and
\* user_token; a 2xx JSON answer comes back unchanged, file_path included, as data of
\* a success envelope, and every other outcome is one failure envelope with no
\* request after it.
C13_UploadOnePost ==
    \A i \in OpIds :
        (ops[i].kind = "uploadFile" /\ ops[i].payload.present)
            => LET op == ops[i]
                   p == UploadPayload(op.payload)
               IN  /\ op.fetches = IF op.pc \in {"fetch", "json"} \/ op.status # 0 THEN 1
                                   ELSE IF op.pc = "done" THEN op.fetches ELSE 0
                   /\ op.fetches \in {0, 1}
                   /\ op.endpoint = "/upload-file"
                   /\ op.fetches = 0 => op.form = <<>>
                   /\ op.fetches = 1
                         => /\ Len(op.form) = 2
                            /\ op.form[1] = [name |-> "file", value |-> Blob(p.fileData),
                                              filename |-> p.fileName]
                            /\ op.form[2] = [name |-> "user_token", value |-> p.user_token]
                   /\ op.pc = "done"
                         => /\ Len(op.responses) = 1
                            /\ IF Ok(op.status) /\ op.body.valid
                               THEN /\ op.responses[1] = [success |-> TRUE, data |-> op.body]
                                    /\ op.responses[1].data.file_path = op.body.file_path
                               ELSE /\ ~op.responses[1].success
                                    /\ DOMAIN op.responses[1] = {"success", "error"}

\* One upload failed while its data payload was read, without any request, and
\* another one was stored by the backend.
C13_Witness ==
    \E i, j \in OpIds :
        /\ ops[i].kind = "uploadFile" /\ ops[i].pc = "done" /\ ops[i].fetches = 0
        /\ ops[i].payload.present /\ ~ops[i].responses[1].success
        /\ ops[j].kind = "uploadFile" /\ ops[j].pc = "done" /\ Ok(ops[j].status)
        /\ ops[j].responses = <<Success(ops[j].body)>>
        /\ ops[j].body.file_path = "/srv/a.pdf"

\* C14: handling an abortRequest never answers the abort message and returns false,
\* whether or not an entry matched; the only response the step sends is the 'Request
\* aborted' failure, sent once to the caller of the operation whose controller was
\* registered under the identifier.
C14_AbortFireAndForget ==
    [][call'.type = "abortRequest"
          => /\ call'.responses = <<>> /\ ~call'.ret
             /\ \A i \in OpIds :
                   ops'[i].responses # ops[i].responses
                       => /\ activeRequests[call'.requestId] = i
                          /\ ops'[i].responses = Append(ops[i].responses, AbortedEnvelope)
                          /\ Len(ops'[i].responses) = 1]_vars

\* An abortRequest cancelled an operation: the operation's caller holds the 'Request
\* aborted' failure and the abort message holds no response.
C14_Witness ==
    /\ call.type = "abortRequest" /\ call.responses = <<>> /\ ~call.ret
    /\ \E i \in OpIds :
          /\ ops[i].aborted /\ ops[i].key = call.requestId
          /\ ops[i].responses = <<AbortedEnvelope>>

\* The envelope the handler of a settled operation computes from what the network
\* gave it: a rejected fetch, a body that is not JSON, or a status and a parsed body.
OwnResult(op) ==
    IF op.status = 0 THEN Failure(NetworkError.message)
    ELSE IF ~op.body.valid THEN Failure(ParseError.message)
    ELSE IF Ok(op.status) THEN Success(op.body)
    ELSE Failure(NotOkError(op.kind, op.status, op.body).message)

\* C16: when an operation is started under a key that is already registered, the key's
\* one entry becomes the new operation's controller and the earlier operation is left
\* as it was, still in flight; an operation is only ever aborted by an abortRequest
\* that finds its own controller under the identifier, so an abort that follows the
\* overwrite signals the second operation only, and the first one ends with the
\* result of its own network call.
C16_OverwriteKeepsSecond ==
    [][/\ \A k \in Keys :
             (Len(ops') = Len(ops) + 1 /\ ops'[Len(ops')].key = k /\ activeRequests[k] # 0)
                 => LET a == activeRequests[k] IN
                    /\ activeRequests'[k] = Len(ops')
                    /\ ops'[a] = ops[a] /\ InFlight(ops'[a]) /\ ~ops'[a].aborted
                    /\ \A j \in Keys \ {k} : activeRequests'[j] = activeRequests[j]
       /\ \A i \in OpIds :
             (ops'[i].aborted /\ ~ops[i].aborted)
                 => call'.type = "abortRequest" /\ activeRequests[call'.requestId] = i
       /\ \A i \in OpIds :
             (InFlight(ops[i]) /\ ops'[i].pc = "done" /\ ~ops'[i].aborted)
                 => ops'[i].responses = <<OwnResult(ops'[i])>>]_vars

\* Two operations shared a key; an abort for it has just cancelled the second, and the
\* first, whose entry the second had overwritten, is still in flight and unanswered.
C16_Witness ==
    /\ call.type = "abortRequest"
    /\ \E a, b \in OpIds :
          /\ a < b /\ ops[a].key = ops[b].key /\ ops[b].key = call.requestId
          /\ ops[b].aborted /\ ops[b].responses = <<AbortedEnvelope>>
          /\ InFlight(ops[a]) /\ ~ops[a].aborted /\ ops[a].responses = <<>>

\* C17: an operation of performFetch that finishes removes the entry of its key, also
\* when the entry holds the controller of another operation that is still in flight;
\* an abortRequest for a key without an entry changes nothing, and an operation whose
\* controller is not the one registered under its key is not aborted by any step.
C17_FirstFinisherOrphans ==
    [][\A i \in OpIds :
          LET k == ops[i].key IN
          (InFlight(ops[i]) /\ k \in Keys)
              => /\ ops'[i].pc = "done" => activeRequests'[k] = 0
                 /\ activeRequests[k] # i => ~ops'[i].aborted
                 /\ (activeRequests[k] = 0 /\ call'.type = "abortRequest"
                        /\ call'.requestId = k)
                       => /\ ops' = ops /\ activeRequests' = activeRequests
                          /\ InFlight(ops'[i])]_vars

\* Two operations overlapped under one key; the first has finished on its own and
\* taken the entry with it, an abortRequest for the key has just been handled, and the
\* second is still in flight.
C17_Witness ==
    /\ call.type = "abortRequest"
    /\ activeRequests[call.requestId] = 0
    /\ \E i, j \in OpIds :
          /\ i # j /\ ops[i].key = call.requestId /\ ops[j].key = call.requestId
          /\ ops[i].pc = "done" /\ ~ops[i].aborted
          /\ InFlight(ops[j]) /\ ~ops[j].aborted /\ ops[j].fetches = 1

\* C18: an operation in flight whose payload supplies no requestId, or a falsy one, is
\* registered under 'default'; an abortRequest without payload or without a truthy
\* requestId targets 'default', and when it has just been handled no operation is left
\* registered under 'default'.
C18_DefaultKey ==
    /\ \A i \in OpIds :
          (InFlight(ops[i]) /\ ops[i].payload.present /\ ~Truthy(ops[i].payload.requestId))
              => ops[i].key = DefaultRequestId
    /\ (call.type = "abortRequest"
           /\ (~call.payload.present \/ ~Truthy(call.payload.requestId)))
          => /\ call.requestId = DefaultRequestId
             /\ activeRequests[DefaultRequestId] = 0

\* C20: as long as the network call of an operation in flight does not settle and no
\* abortRequest for its identifier is handled, every step leaves the operation's
\* registry entry in place and sends no response for it.
C20_StalledEntryStays ==
    [][\A i \in OpIds :
          (/\ InFlight(ops[i]) /\ ops'[i].pc = ops[i].pc
           /\ ~(call'.type = "abortRequest" /\ call'.requestId = Id(ops[i])))
              => /\ ops'[i].responses = <<>>
                 /\ \A k \in Keys : activeRequests[k] = i => activeRequests'[k] = i]_vars

\* C21: with every issued network call settling, every operation that was started
\* delivers its response, and once the last operation has been started the registry
\* becomes empty and stays empty.
C21_EveryOperationAnswered ==
    /\ \A i \in 1..MaxOps : (Len(ops) >= i) ~> (Len(ops) >= i /\ Len(ops[i].responses) = 1)
    /\ (Len(ops) = MaxOps) ~> [](\A k \in Keys : activeRequests[k] = 0)

\* C22: an operation in flight is registered under the key line 14 computes from the
\* message that started it, for every kind of operation, so that once an abortRequest
\* carrying that requestId has been handled no operation with that identifier is
\* still in flight.
C22_RegisteredUnderCallerKey ==
    /\ \A i \in OpIds : InFlight(ops[i]) => ops[i].key = Id(ops[i])
    /\ call.type = "abortRequest"
          => \A i \in OpIds : Id(ops[i]) = call.requestId => ~InFlight(ops[i])

\* The keys that have an entry.
Registered == {k \in Keys : activeRequests[k] # 0}

\* C23: every entry of the registry holds the controller of an operation that has
\* started, has not delivered its response and has not been signalled, and no
\* operation is entered twice, so the registry is never larger than the number of
\* operations in flight.
C23_RegistryHoldsLiveHandles ==
    /\ \A k \in Registered :
          /\ activeRequests[k] \in OpIds
          /\ InFlight(ops[activeRequests[k]])
          /\ ops[activeRequests[k]].responses = <<>>
          /\ ~ops[activeRequests[k]].aborted
    /\ \A k, l \in Registered : activeRequests[k] = activeRequests[l] => k = l
    /\ Cardinality(Registered) <= Cardinality({i \in OpIds : InFlight(ops[i])})

\* One operation has failed and one has been aborted, both are out of the registry.
C23_Witness ==
    /\ Registered = {}
    /\ \E a, b \in OpIds :
          /\ ops[a].pc = "done" /\ ~ops[a].aborted /\ ops[a].key \in Keys
          /\ ~ops[a].responses[1].success
          /\ ops[b].pc = "done" /\ ops[b].aborted /\ ops[b].key # ops[a].key

\* C24: between any two messages, a sendChatMessage or summarizeDocument that has been
\* received, has not completed and shares its identifier with no other operation has
\* its own entry in the registry under that identifier: the entry is there from the
\* listener call that received the message, so no abort comes too early for it.
C24_RegisteredInListenerCall ==
    \A i \in OpIds :
        (/\ ops[i].kind \in {"sendChatMessage", "summarizeDocument"}
         /\ ops[i].pc # "done"
         /\ \A j \in OpIds \ {i} : Id(ops[j]) # Id(ops[i]) /\ ops[j].key # Id(ops[i]))
            => activeRequests[Id(ops[i])] = i

\* The message types a UI context sends with a callback for the answer.
AwaitedTypes == Kinds \cup {"sendShortSummary"}

\* C25: for every type a UI context awaits an answer for, the listener starts a handler
\* and returns true, keeping the channel open for the response envelope; for any other
\* type except abortRequest it returns false, starts nothing and leaves the registry
\* as it was.
C25_AwaitedTypesHandled ==
    [][/\ call'.type \in AwaitedTypes
             => /\ call'.ret
                /\ Len(ops') = Len(ops) + 1
                /\ ops'[Len(ops')].kind = call'.type
       /\ call'.type \notin AwaitedTypes \cup {"abortRequest", "none"}
             => ~call'.ret /\ ops' = ops /\ activeRequests' = activeRequests]_vars

----------------------------------------------------------------------------
\* Properties of the requests

\* The member names of a JSON body.
BodyNames(body) == {member[1] : member \in body}

\* The value of member f of a JSON body, Undefined when the body has no such member.
BodyValue(body, f) ==
    IF f \in BodyNames(body) THEN (CHOOSE member \in body : member[1] = f)[2] ELSE Undefined

JsonRequestIssued == message.type \in JsonKinds /\ request # NoRequest

----------------------------------------------------------------------------
\* Properties of the widget

SendIds == 1..Len(sends)

\* The request of invocation n is in flight: sent, and its last callback has not run.
WidgetInFlight(n) == sends[n].pc # "done"

CancelledContent == <<"_Zapros otmenen polzovatelem._">>

\* C15: the cancel handler acts only when currentRequestIdRef is non-null; the
\* reference then names a request of handleSendMessage that is in flight, the handler
\* sends one abortRequest carrying it, clears currentRequestIdRef and isLoading and
\* appends exactly one notice; with a null reference, as on a second click, it sends
\* nothing and appends nothing.
C15_CancelAction ==
    [][event'.type = "handleAbortRequest"
          => IF currentRequestIdRef # Null
             THEN /\ \E n \in SendIds :
                        sends[n].requestId = currentRequestIdRef /\ WidgetInFlight(n)
                  /\ outbox' = Append(outbox, [type |-> "abortRequest",
                                               payload |-> [requestId |-> currentRequestIdRef]])
                  /\ currentRequestIdRef' = Null /\ ~isLoading'
                  /\ Len(messages') = Len(messages) + 1
                  /\ SubSeq(messages', 1, Len(messages)) = messages
                  /\ messages'[Len(messages')].content = CancelledContent
             ELSE outbox' = outbox /\ messages' = messages]_vars

\* The cancel button was clicked twice for one request that is still in flight: one
\* abortRequest went out and one notice stands in the transcript.
C15_Witness ==
    /\ event.type = "handleAbortRequest" /\ event.ref = Null
    /\ \E n \in SendIds :
          /\ sends[n].cancelled /\ WidgetInFlight(n)
          /\ Cardinality({k \in 1..Len(outbox) :
                             outbox[k] = AbortMessage(sends[n].requestId)}) = 1
          /\ Cardinality({k \in 1..Len(messages) :
                             messages[k].content = CancelledContent}) = 1

\* C19: when a callback of handleSendMessage receives a failure, the transcript gains
\* no entry if the error is the relay's 'Request aborted' and exactly one error entry
\* for every other failure; either way isLoading is reset and the attachment cleared.
C19_ErrorShownUnlessCancelled ==
    [][(event'.type \in {"uploadCallback", "chatCallback"} /\ ~ResSuccess(event'.res))
          => /\ IF event'.res = AbortedEnvelope
                THEN messages' = messages
                ELSE /\ Len(messages') = Len(messages) + 1
                     /\ SubSeq(messages', 1, Len(messages)) = messages
                     /\ messages'[Len(messages')].role = "assistant"
                     /\ messages'[Len(messages')].content[1] = "Oshibka: "
             /\ ~isLoading' /\ attachedFile' = Null]_vars

\* C26: while a request of handleSendMessage that the user has not cancelled is in
\* flight, isLoading is true and currentRequestIdRef holds its identifier, whatever
\* the callbacks of earlier, cancelled requests do in the meantime.
C26_LoadingWhileInFlight ==
    \A n \in SendIds :
        (WidgetInFlight(n) /\ ~sends[n].cancelled)
            => isLoading /\ currentRequestIdRef = sends[n].requestId

\* The entries a step appends to the transcript.
Appended == {messages'[k] : k \in (Len(messages) + 1)..Len(messages')}

\* The messages a step hands to the relay.
Sent == {outbox'[k] : k \in (Len(outbox) + 1)..Len(outbox')}

\* C27: once a request has been cancelled by the user, no step appends an assistant
\* reply or an error message that belongs to it, and no step sends a relay message
\* for it.
C27_CancelledStaysSilent ==
    [][\A n \in SendIds :
          sends[n].cancelled
              => /\ \A m \in Appended : m.send # n
                 /\ \A o \in Sent :
                       ~(o.type = "sendChatMessage"
                           /\ o.payload.requestId = sends[n].requestId)]_vars

\* C28: a form message with an attachment sends uploadFile first and nothing else;
\* sendChatMessage follows in the step in which the upload's success arrives and
\* carries the file_path of that answer; when the upload fails, no sendChatMessage is
\* sent, the request is over and exactly one error message is appended.
C28_UploadBeforeChat ==
    [][/\ (event'.type = "handleSendMessage" /\ Len(sends') = Len(sends) + 1
             /\ attachedFile # Null /\ sends'[Len(sends')].humanChoice = Undefined)
             => Sent = {UploadMessage(attachedFile)}
       /\ event'.type = "uploadCallback" /\ Len(outbox') >= Len(outbox)
             => IF ResSuccess(event'.res)
                THEN Sent = {ChatMessage(sends[event'.send], event'.res.data.file_path)}
                ELSE /\ Sent = {}
                     /\ sends'[event'.send].pc = "done"
                     /\ Cardinality(Appended) = 1
                     /\ Len(messages') = Len(messages) + 1
                     /\ \A m \in Appended : m.content[1] = "Oshibka: "]_vars

\* C29: a sendChatMessage that handleSendMessage sends at once, without an upload of
\* its own, carries a file_path only as the human-choice follow-up of the
\* 'requires_action' reply that stands last in the transcript.
C29_FilePathNotCarriedOver ==
    [][(event'.type = "handleSendMessage" /\ Len(sends') = Len(sends) + 1)
          => \A o \in Sent :
                (o.type = "sendChatMessage" /\ o.payload.file_path # Null)
                    => /\ o.payload.human_choice # Undefined
                       /\ messages # <<>>
                       /\ messages[Len(messages)].action_type = "summarize_selection"]_vars

\* C30: at most one request of the widget is in flight at any time.
C30_SingleFlight ==
    Cardinality({n \in SendIds : WidgetInFlight(n)}) <= 1

====
